---- MODULE Spec2Model ----
(***************************************************************************)
(* Model of the Perso agent middleware: the Cloudflare Worker `fetch`      *)
(* handler that relays one chat turn between a history store (Supabase),   *)
(* a chat-completion API (OpenAI) and an automation backend (n8n).         *)
(*                                                                         *)
(* The repository holds two copies of the handler with the same control    *)
(* flow: src/src/index.ts and the richer src/unnamed/part_000, which reads *)
(* userPhone from the body, fills a missing `to` with it (withTo), returns *)
(* it in the envelope, and swallows a failed read of a tool's answer.      *)
(* Either copy can be the one deployed: `deployed` names it, and every     *)
(* definition that differs between the copies takes it into account.       *)
(* Where the copies agree the line references are those of                 *)
(* src/src/index.ts.                                                       *)
(*                                                                         *)
(* Every request is a process whose position is pc[r]; a step of the model *)
(* is the code between two awaits of an external call, together with the   *)
(* outcome of that call.  The store is shared by the requests; the         *)
(* completion API and the automation backend are the environment and       *)
(* their answers are chosen nondeterministically.                          *)
(***************************************************************************)
EXTENDS Integers, Sequences, FiniteSets, TLC

\* ---------------------------------------------------------------- bounds
\* largest number of tool calls the model returns in one completion
MaxToolCalls == 2

\* longest input of normPhone, in characters
MaxPhoneLen == 4
\* longest `to` argument and userPhone of a dispatched messaging tool call
MaxToLen == 2
\* most buttons, sections and rows per section the model supplies
MaxButtons == 5
MaxSections == 11
MaxRows == 11

\* ------------------------------------------------------------- constants
\* p_limit passed to get_conversation_history
p_limit == 20

\* the requests in flight (the runtime may serve several concurrently)
Reqs == {"r1", "r2"}

\* the two copies of the handler
COPY_INDEX == "src/index.ts"
COPY_PART == "unnamed/part_000"
Handlers == {COPY_INDEX, COPY_PART}

\* ------------------------------------------------------- values and text
\* JavaScript undefined / null for a string-valued field
Undef == "<undefined>"
NullStr == "<null>"
\* strings the code inspects character by character (phone numbers) are
\* sequences of one-character strings; NoStr is undefined for those
NoStr == <<"undefined">>
NullSeq == <<"null">>

SYSTEM_PROMPT == "Voce e o Perso, agente Weburn (fitness/nutri) no WhatsApp."
FALLBACK_ERROR == "Desculpe, ocorreu um erro interno. Tente novamente em alguns instantes."
FALLBACK_EMPTY == "Desculpe, nao consegui gerar uma resposta."
MSG_REQUIRED == "Os campos \"conversationId\" e \"newMessage\" sao obrigatorios."
MSG_METHOD == "Metodo nao permitido"
MSG_INTERNAL == "Erro interno no agente: <e.message>"

TOOL_BUSCAR == "buscar_programas_weburn"
TOOL_LEGACY == "send_whatsapp"
TOOL_TEXT == "send_whatsapp_text"
TOOL_BUTTONS == "send_whatsapp_buttons"
TOOL_LIST == "send_whatsapp_list"
TOOL_UNKNOWN == "agendar_treino"

MessagingTools == {TOOL_LEGACY, TOOL_TEXT, TOOL_BUTTONS, TOOL_LIST}
ToolNames == {TOOL_BUSCAR, TOOL_UNKNOWN} \cup MessagingTools

\* results of a tool call, as the strings the code builds
RES_EXEC_OK == "[{\"id\":\"p1\"}]"
RES_EXEC_HTTP == "Erro na ferramenta buscar-programas: Internal Server Error"
RES_EXEC_THROW == "Erro interno na ferramenta: fetch failed"
RES_EXEC_BODY == "Erro interno na ferramenta: Unexpected end of JSON input"
RES_EXEC_EMPTY == "{}"
RES_SEND_OK == "{\"ok\":true}"
RES_SEND_HTTP == "{\"ok\":false,\"error\":{\"code\":\"HTTP_500\",\"detail\":\"\"}}"
RES_NOT_IMPL == "Tool nao implementada: agendar_treino"

\* phone numbers used as inputs
PHONE_ARG == <<"1", "1", "9">>
PHONE_USER == <<"(", "2", "1", ")", "9">>

VARIABLES
    deployed,           \* the copy of the handler that serves the requests
    pc,                 \* position of each request in the handler
    req,                \* the inbound request: method, configuration, body
    store,              \* rows of conversation_history (shared, external)
    history,            \* data returned by get_conversation_history
    messages,           \* the running message list
    toolCalls,          \* assistantMessage.tool_calls of the first completion
    idx,                \* position of the for-of loop over the tool calls
    toolCallsExecuted,  \* the counter of the same name
    agentResponse,      \* the variable of the same name
    response,           \* the Response the handler returned
    completions,        \* log: calls of openai.chat.completions.create
    posts,              \* log: outbound POSTs to the automation backend
    inserts,            \* log: insert attempts on conversation_history
    rpcs,               \* log: calls of get_conversation_history
    inFlight,           \* outbound POSTs sent and not yet answered
    pIn,                \* a function of the adapter under study: its input
    pOut                \* ... and the values it returned, in order

\* the state of the handler
handlerVars == <<deployed, pc, req, store, history, messages, toolCalls, idx, toolCallsExecuted,
                 agentResponse, response, completions, posts, inserts, rpcs, inFlight>>

vars == <<deployed, pc, req, store, history, messages, toolCalls, idx, toolCallsExecuted,
          agentResponse, response, completions, posts, inserts, rpcs, inFlight,
          pIn, pOut>>

\* ------------------------------------------------------------ pure helpers
Digits == {"0", "1", "2", "3", "4", "5", "6", "7", "8", "9"}

\* a value JavaScript treats as false in `!x` and `x || y`
Falsy(s) == s \in {Undef, NullStr, ""}
FalsySeq(s) == s \in {NoStr, <<>>}

\* (to || '').replace(/\D/g, '')
DigitsOf(to) == SelectSeq(IF FalsySeq(to) THEN <<>> ELSE to, LAMBDA c : c \in Digits)

\* variant of normPhone that prepends the country code without looking
normPhone_AlwaysPrefix(to) ==
    LET digits == DigitsOf(to) IN
    IF digits = <<>> THEN to ELSE <<"+", "5", "5">> \o digits

\* variant of normPhone that tests and keeps `to` instead of its digits
normPhone_KeepsFormatting(to) ==
    IF DigitsOf(to) = <<>> THEN to
    ELSE IF Len(to) >= 2 /\ to[1] = "5" /\ to[2] = "5"
         THEN <<"+">> \o to
         ELSE <<"+", "5", "5">> \o to

normPhone(to) ==
    LET digits == DigitsOf(to) IN
    IF digits = <<>> THEN to
    ELSE IF Len(digits) >= 2 /\ digits[1] = "5" /\ digits[2] = "5"
         THEN <<"+">> \o digits
         ELSE <<"+", "5", "5">> \o digits

\* args?.to || userPhone || ''
withTo(argsTo, userPhone) ==
    IF ~FalsySeq(argsTo) THEN argsTo
    ELSE IF ~FalsySeq(userPhone) THEN userPhone
    ELSE <<>>

\* the `to` of the arguments the dispatch chain hands to a messaging
\* wrapper: withTo(functionArgs) in part_000, functionArgs in index.ts
WrapperTo(copy, argsTo, userPhone) ==
    IF copy = COPY_PART THEN withTo(argsTo, userPhone) ELSE argsTo

\* userPhone: userPhone || null in the envelope of part_000; index.ts has
\* no such member
EnvelopePhone(copy, userPhone) ==
    IF copy = COPY_PART
    THEN IF FalsySeq(userPhone) THEN NullSeq ELSE userPhone
    ELSE NoStr

\* content || 'Desculpe, não consegui gerar uma resposta.'
\* variant of ContentOrDefault without the `|| 'Desculpe, ...'` default
ContentOrDefault_NoDefault(c) == c

ContentOrDefault(c) == IF Falsy(c) THEN FALLBACK_EMPTY ELSE c

\* variant of BodyValid that forgets to test newMessage
BodyValid_OnlyConversation(body) == ~Falsy(body.conversationId)

\* !conversationId || !newMessage  (negated: the body passes validation)
BodyValid(body) == ~Falsy(body.conversationId) /\ ~Falsy(body.newMessage)

\* ---------------------------------------------------------------- records
NoResponse == [status |-> 0, body |-> "none", success |-> FALSE, text |-> "",
               toolCallsExecuted |-> 0, messagesInHistory |-> 0, userPhone |-> NoStr]

TextResponse(st, txt) ==
    [status |-> st, body |-> "text", success |-> FALSE, text |-> txt,
     toolCallsExecuted |-> 0, messagesInHistory |-> 0, userPhone |-> NoStr]

SuccessEnvelope(txt, n, h, phone) ==
    [status |-> 200, body |-> "json", success |-> TRUE, text |-> txt,
     toolCallsExecuted |-> n, messagesInHistory |-> h, userPhone |-> phone]

Msg(role, content, tcid, calls) ==
    [role |-> role, content |-> content, tool_call_id |-> tcid, tool_calls |-> calls]

Row(cid, role, content) == [conversation_id |-> cid, role |-> role, content |-> content]

\* ------------------------------------------------------------------ inputs
Bodies ==
    {[kind |-> k, conversationId |-> Undef, newMessage |-> Undef, userPhone |-> NoStr] :
        k \in {"unparsable", "null"}}
    \cup
    [kind : {"object"}, conversationId : {Undef, "", "c1"},
     newMessage : {Undef, "", "oi"}, userPhone : {NoStr, PHONE_USER}]

Requests == [method : {"POST", "GET"}, hasKey : BOOLEAN, body : Bodies]

\* the conversation has a past: the first insert of a request finds rows
InitialStores ==
    { <<Row("c1", "system", "nota")>>,
      <<Row("c1", "user", "ola"), Row("c1", "assistant", "oi!")>> }

\* a tool call as the completion API returns it; argsOk is whether
\* function.arguments is parseable JSON, to is the `to` member of the
\* arguments.  Each branch of the dispatch chain is taken without `to`
\* (send_whatsapp and send_whatsapp_text share theirs), one of them also
\* with it; JSON.parse throws before the name of a call is looked at, so
\* one unparsable call stands for all.
ToolCallVariants ==
    [name : {TOOL_LEGACY, TOOL_BUTTONS, TOOL_LIST}, argsOk : {TRUE}, to : {NoStr}]
    \cup [name : {TOOL_TEXT}, argsOk : {TRUE}, to : {PHONE_ARG}]
    \cup [name : {TOOL_BUSCAR}, argsOk : {FALSE}, to : {NoStr}]
    \cup [name : {TOOL_BUSCAR, TOOL_UNKNOWN}, argsOk : {TRUE}, to : {NoStr}]

RECURSIVE SeqsUpTo(_, _)
SeqsUpTo(S, n) ==
    IF n = 0 THEN {<<>>}
    ELSE LET shorter == SeqsUpTo(S, n - 1) IN
         shorter \cup {Append(s, x) : s \in {t \in shorter : Len(t) = n - 1}, x \in S}

\* tool-call lists: the id of a call is its position in the list
ToolCallLists ==
    {[i \in 1..Len(s) |-> [id |-> i, name |-> s[i].name, argsOk |-> s[i].argsOk, to |-> s[i].to]] :
        s \in SeqsUpTo(ToolCallVariants, MaxToolCalls)}

Contents == {NullStr, "", "Aqui estao alguns programas."}

\* ------------------------------------------------------------------- store
\* rows of one conversation, oldest first
RECURSIVE RowsOf(_, _)
RowsOf(rows, cid) ==
    IF rows = <<>> THEN <<>>
    ELSE LET rest == RowsOf(Tail(rows), cid) IN
         IF Head(rows).conversation_id = cid THEN <<Head(rows)>> \o rest ELSE rest

LastN(s, n) == IF Len(s) <= n THEN s ELSE SubSeq(s, Len(s) - n + 1, Len(s))

\* the stored procedure get_conversation_history(p_conversation_id, p_limit)
get_conversation_history(rows, cid, limit) == LastN(RowsOf(rows, cid), limit)

\* system message, then the user and assistant rows of the history
RECURSIVE HistoryMessages(_)
HistoryMessages(h) ==
    IF h = <<>> THEN <<>>
    ELSE LET rest == HistoryMessages(Tail(h)) IN
         IF Head(h).role \in {"user", "assistant"}
         THEN <<Msg(Head(h).role, Head(h).content, 0, <<>>)>> \o rest
         ELSE rest

\* variant of BuildMessages that puts the system message after the history
BuildMessages_SystemLast(h) == HistoryMessages(h) \o <<Msg("system", SYSTEM_PROMPT, 0, <<>>)>>

BuildMessages(h) == <<Msg("system", SYSTEM_PROMPT, 0, <<>>)>> \o HistoryMessages(h)

\* -------------------------------------------------------------------- Init
InitCommon ==
    /\ deployed \in Handlers
    /\ req \in [Reqs -> Requests]
    /\ store \in InitialStores
    /\ history = [r \in Reqs |-> <<>>]
    /\ messages = [r \in Reqs |-> <<>>]
    /\ toolCalls = [r \in Reqs |-> <<>>]
    /\ idx = [r \in Reqs |-> 0]
    /\ toolCallsExecuted = [r \in Reqs |-> 0]
    /\ agentResponse = [r \in Reqs |-> ""]
    /\ response = [r \in Reqs |-> NoResponse]
    /\ completions = [r \in Reqs |-> <<>>]
    /\ posts = [r \in Reqs |-> <<>>]
    /\ inserts = [r \in Reqs |-> <<>>]
    /\ rpcs = [r \in Reqs |-> <<>>]
    /\ inFlight = [r \in Reqs |-> 0]

\* one request arrives; the other never does
Init ==
    /\ InitCommon
    /\ pIn = [fn |-> "none"]
    /\ pOut = <<>>
    /\ pc = [r \in Reqs |-> IF r = "r1" THEN "start" ELSE "off"]
    /\ req["r2"] = [method |-> "GET", hasKey |-> TRUE,
                    body |-> [kind |-> "null", conversationId |-> Undef,
                              newMessage |-> Undef, userPhone |-> NoStr]]

\* ----------------------------------------------------------------- actions
\* return new Response(...) from the handler
Return(r, resp) ==
    /\ response' = [response EXCEPT ![r] = resp]
    /\ pc' = [pc EXCEPT ![r] = "done"]

\* the outer catch: 500 with a plain-text body
OuterCatch(r) == Return(r, TextResponse(500, MSG_INTERNAL))

\* if (request.method !== 'POST') return 405
MethodNotAllowed(r) ==
    /\ pc[r] = "start"
    /\ req[r].method # "POST"
    /\ Return(r, TextResponse(405, MSG_METHOD))
    /\ UNCHANGED <<pIn, pOut, deployed, req, store, history, messages, toolCalls, idx, toolCallsExecuted,
                   agentResponse, completions, posts, inserts, rpcs, inFlight>>

\* createClient(...) and new OpenAI({ apiKey }) succeed.  They run before
\* the try block.  With the key absent the constructor of the SDK either
\* rejects it (InitClientsThrows) or accepts it (the test's mock does), and
\* then every completion call fails.
InitClients(r) ==
    /\ pc[r] = "start"
    /\ req[r].method = "POST"
    /\ pc' = [pc EXCEPT ![r] = "parse"]
    /\ UNCHANGED <<pIn, pOut, deployed, req, store, history, messages, toolCalls, idx, toolCallsExecuted,
                   agentResponse, response, completions, posts, inserts, rpcs, inFlight>>

\* new OpenAI({ apiKey: undefined }) throws outside the try block: the
\* handler's promise rejects and the handler returns no Response
InitClientsThrows(r) ==
    /\ pc[r] = "start"
    /\ req[r].method = "POST"
    /\ ~req[r].hasKey
    /\ pc' = [pc EXCEPT ![r] = "thrown"]
    /\ UNCHANGED <<pIn, pOut, deployed, req, store, history, messages, toolCalls, idx, toolCallsExecuted,
                   agentResponse, response, completions, posts, inserts, rpcs, inFlight>>

\* await request.json(), the destructuring and the validation
ParseBody(r) ==
    /\ pc[r] = "parse"
    /\ IF req[r].body.kind # "object"
       THEN OuterCatch(r)
       ELSE IF ~BodyValid(req[r].body)
            THEN Return(r, TextResponse(400, MSG_REQUIRED))
            ELSE /\ pc' = [pc EXCEPT ![r] = "insertUser"]
                 /\ UNCHANGED response
    /\ UNCHANGED <<pIn, pOut, deployed, req, store, history, messages, toolCalls, idx, toolCallsExecuted,
                   agentResponse, completions, posts, inserts, rpcs, inFlight>>

\* variant of InsertUser that only logs insertError and goes on
InsertUser_IgnoresError(r) ==
    /\ pc[r] = "insertUser"
    /\ \E ok \in BOOLEAN :
        /\ inserts' = [inserts EXCEPT ![r] =
               Append(@, [conversation_id |-> req[r].body.conversationId, role |-> "user",
                          content |-> req[r].body.newMessage, ok |-> ok,
                          at |-> Len(store) + 1])]
        /\ store' = IF ok THEN Append(store, Row(req[r].body.conversationId, "user",
                                                 req[r].body.newMessage))
                    ELSE store
        /\ pc' = [pc EXCEPT ![r] = "fetchHistory"]
        /\ UNCHANGED response
    /\ UNCHANGED <<pIn, pOut, deployed, req, history, messages, toolCalls, idx, toolCallsExecuted,
                   agentResponse, completions, posts, rpcs, inFlight>>

\* 1. insert the user turn; an error is thrown to the outer catch
InsertUser(r) ==
    /\ pc[r] = "insertUser"
    /\ \E ok \in BOOLEAN :
        /\ inserts' = [inserts EXCEPT ![r] =
               Append(@, [conversation_id |-> req[r].body.conversationId, role |-> "user",
                          content |-> req[r].body.newMessage, ok |-> ok,
                          at |-> Len(store) + 1])]
        /\ IF ok
           THEN /\ store' = Append(store, Row(req[r].body.conversationId, "user",
                                              req[r].body.newMessage))
                /\ pc' = [pc EXCEPT ![r] = "fetchHistory"]
                /\ UNCHANGED response
           ELSE /\ OuterCatch(r)
                /\ UNCHANGED store
    /\ UNCHANGED <<pIn, pOut, deployed, req, history, messages, toolCalls, idx, toolCallsExecuted,
                   agentResponse, completions, posts, rpcs, inFlight>>

\* 2. and 3. fetch the history (error: outer catch; data may be null) and
\* assemble the message list
FetchHistory(r) ==
    /\ pc[r] = "fetchHistory"
    /\ \E out \in {"error", "null", "data"} :
        /\ rpcs' = [rpcs EXCEPT ![r] = Append(@, [out |-> out, at |-> Len(store)])]
        /\ IF out = "error"
           THEN /\ OuterCatch(r)
                /\ UNCHANGED <<history, messages>>
           ELSE LET h == IF out = "null" THEN <<>>
                         ELSE get_conversation_history(store, req[r].body.conversationId, p_limit)
                IN /\ history' = [history EXCEPT ![r] = h]
                   /\ messages' = [messages EXCEPT ![r] = BuildMessages(h)]
                   /\ pc' = [pc EXCEPT ![r] = "complete1"]
                   /\ UNCHANGED response
    /\ UNCHANGED <<pIn, pOut, deployed, req, store, toolCalls, idx, toolCallsExecuted,
                   agentResponse, completions, posts, inserts, inFlight>>

\* what a completion call can answer: a failure, or choices[0].message
FirstOutcomes ==
    {[ok |-> FALSE, content |-> NullStr, tool_calls |-> <<>>]}
    \cup [ok : {TRUE}, content : Contents, tool_calls : {<<>>}]
    \cup [ok : {TRUE}, content : {NullStr}, tool_calls : ToolCallLists \ {<<>>}]

FinalOutcomes ==
    {[ok |-> FALSE, content |-> NullStr, tool_calls |-> <<>>]}
    \cup [ok : {TRUE}, content : Contents,
          tool_calls : {<<>>, <<[id |-> 9, name |-> TOOL_BUSCAR, argsOk |-> TRUE, to |-> NoStr]>>}]

\* variant of OpenAICatch without the inner try/catch: the exception
\* reaches the outer catch
OpenAICatch_Rethrows(r) ==
    /\ OuterCatch(r)
    /\ UNCHANGED <<agentResponse, messages, toolCalls, toolCallsExecuted, idx>>

\* variant of OpenAICatch that also resets the counter of executed tool calls
OpenAICatch_ResetsCounter(r) ==
    /\ agentResponse' = [agentResponse EXCEPT ![r] = FALLBACK_ERROR]
    /\ toolCallsExecuted' = [toolCallsExecuted EXCEPT ![r] = 0]
    /\ pc' = [pc EXCEPT ![r] = "insertAssistant"]
    /\ UNCHANGED <<response, messages, toolCalls, idx>>

\* catch (openaiError): the fallback text becomes the agent response and
\* the handler goes on to step 6
OpenAICatch(r) ==
    /\ agentResponse' = [agentResponse EXCEPT ![r] = FALLBACK_ERROR]
    /\ pc' = [pc EXCEPT ![r] = "insertAssistant"]
    /\ UNCHANGED <<response, messages, toolCalls, toolCallsExecuted, idx>>

\* variant of FirstCompletion that does not push the assistant message
\* before the loop
FirstCompletion_NoPush(r) ==
    /\ pc[r] = "complete1"
    /\ \E out \in FirstOutcomes :
        /\ ~req[r].hasKey => ~out.ok
        /\ completions' = [completions EXCEPT ![r] =
               Append(@, [tools |-> TRUE, nmsgs |-> Len(messages[r]),
                          ok |-> out.ok, content |-> out.content])]
        /\ IF ~out.ok
           THEN OpenAICatch(r)
           ELSE IF out.tool_calls # <<>>
                THEN /\ toolCalls' = [toolCalls EXCEPT ![r] = out.tool_calls]
                     /\ idx' = [idx EXCEPT ![r] = 1]
                     /\ pc' = [pc EXCEPT ![r] = "loop"]
                     /\ UNCHANGED <<response, agentResponse, toolCallsExecuted, messages>>
                ELSE /\ agentResponse' = [agentResponse EXCEPT ![r] = ContentOrDefault(out.content)]
                     /\ pc' = [pc EXCEPT ![r] = "insertAssistant"]
                     /\ UNCHANGED <<response, messages, toolCalls, toolCallsExecuted, idx>>
    /\ UNCHANGED <<pIn, pOut, deployed, req, store, history, posts, inserts, rpcs, inFlight>>

\* 5. the first completion call, with the tools offered, answered with one
\* of outs
FirstCompletionWith(r, outs) ==
    /\ pc[r] = "complete1"
    /\ \E out \in outs :
        /\ ~req[r].hasKey => ~out.ok
        /\ completions' = [completions EXCEPT ![r] =
               Append(@, [tools |-> TRUE, nmsgs |-> Len(messages[r]),
                          ok |-> out.ok, content |-> out.content])]
        /\ IF ~out.ok
           THEN OpenAICatch(r)
           ELSE IF out.tool_calls # <<>>
                THEN /\ messages' = [messages EXCEPT ![r] =
                            Append(@, Msg("assistant", out.content, 0, out.tool_calls))]
                     /\ toolCalls' = [toolCalls EXCEPT ![r] = out.tool_calls]
                     /\ idx' = [idx EXCEPT ![r] = 1]
                     /\ pc' = [pc EXCEPT ![r] = "loop"]
                     /\ UNCHANGED <<response, agentResponse, toolCallsExecuted>>
                ELSE /\ agentResponse' = [agentResponse EXCEPT ![r] = ContentOrDefault(out.content)]
                     /\ pc' = [pc EXCEPT ![r] = "insertAssistant"]
                     /\ UNCHANGED <<response, messages, toolCalls, toolCallsExecuted, idx>>
    /\ UNCHANGED <<pIn, pOut, deployed, req, store, history, posts, inserts, rpcs, inFlight>>

FirstCompletion(r) == FirstCompletionWith(r, FirstOutcomes)

\* variant of CurrentCall that walks the tool calls from the last to the first
CurrentCall_Reversed(r) == toolCalls[r][Len(toolCalls[r]) - idx[r] + 1]

\* the tool call the for-of loop is at
CurrentCall(r) == toolCalls[r][idx[r]]

\* variant of AppendResult that forgets toolCallsExecuted++
AppendResult_NoCount(r, call, result) ==
    /\ messages' = [messages EXCEPT ![r] = Append(@, Msg("tool", result, call.id, <<>>))]
    /\ idx' = [idx EXCEPT ![r] = @ + 1]
    /\ pc' = [pc EXCEPT ![r] = IF idx[r] + 1 > Len(toolCalls[r]) THEN "complete2" ELSE "loop"]
    /\ UNCHANGED <<response, agentResponse, toolCalls, toolCallsExecuted>>

\* messages.push({role: 'tool', ...}); toolCallsExecuted++; next iteration,
\* or the finalizing completion after the last one
AppendResult(r, call, result) ==
    /\ messages' = [messages EXCEPT ![r] = Append(@, Msg("tool", result, call.id, <<>>))]
    /\ toolCallsExecuted' = [toolCallsExecuted EXCEPT ![r] = @ + 1]
    /\ idx' = [idx EXCEPT ![r] = @ + 1]
    /\ pc' = [pc EXCEPT ![r] = IF idx[r] + 1 > Len(toolCalls[r]) THEN "complete2" ELSE "loop"]
    /\ UNCHANGED <<response, agentResponse, toolCalls>>

\* the endpoint a tool name is posted to, below the webhook base
\* (N8N_WEBHOOK_URL, which part_000 completes with /webhook when it lacks it)
ToolUrl(name) == IF name = TOOL_BUSCAR THEN "/tool/buscar-programas" ELSE "/tool/send-whatsapp"

\* variant of DispatchTool whose final else branch throws instead of
\* answering with a string
DispatchTool_UnknownThrows(r) ==
    /\ pc[r] = "loop"
    /\ LET call == CurrentCall(r) IN
       IF ~call.argsOk \/ call.name \notin {TOOL_BUSCAR} \cup MessagingTools
       THEN /\ OpenAICatch(r)
            /\ UNCHANGED <<posts, inFlight>>
       ELSE /\ posts' = [posts EXCEPT ![r] =
                   Append(@, [call |-> call.id, url |-> ToolUrl(call.name), out |-> "pending",
                              body |-> "none",
                              to |-> IF call.name = TOOL_BUSCAR THEN NoStr
                                     ELSE normPhone(WrapperTo(deployed, call.to,
                                                              req[r].body.userPhone))])]
            /\ inFlight' = [inFlight EXCEPT ![r] = @ + 1]
            /\ pc' = [pc EXCEPT ![r] = "awaitTool"]
            /\ UNCHANGED <<response, agentResponse, messages, toolCalls, toolCallsExecuted, idx>>
    /\ UNCHANGED <<pIn, pOut, deployed, req, store, history, completions, inserts, rpcs>>

\* one iteration of the loop up to its await: JSON.parse of the arguments
\* (a throw goes to the OpenAI catch), the dispatch chain, and the fetch()
\* of the selected tool; an unrecognized name completes at once
DispatchTool(r) ==
    /\ pc[r] = "loop"
    /\ LET call == CurrentCall(r) IN
       IF ~call.argsOk
       THEN /\ OpenAICatch(r)
            /\ UNCHANGED <<posts, inFlight>>
       ELSE IF call.name \notin {TOOL_BUSCAR} \cup MessagingTools
       THEN /\ AppendResult(r, call, RES_NOT_IMPL)
            /\ UNCHANGED <<posts, inFlight>>
       ELSE /\ posts' = [posts EXCEPT ![r] =
                   Append(@, [call |-> call.id, url |-> ToolUrl(call.name), out |-> "pending",
                              body |-> "none",
                              to |-> IF call.name = TOOL_BUSCAR THEN NoStr
                                     ELSE normPhone(WrapperTo(deployed, call.to,
                                                              req[r].body.userPhone))])]
            /\ inFlight' = [inFlight EXCEPT ![r] = @ + 1]
            /\ pc' = [pc EXCEPT ![r] = "awaitTool"]
            /\ UNCHANGED <<response, agentResponse, messages, toolCalls, toolCallsExecuted, idx>>
    /\ UNCHANGED <<pIn, pOut, deployed, req, store, history, completions, inserts, rpcs>>

\* what the automation backend can do with a POST
HttpOutcomes == {"ok", "http500", "throw"}

\* what reading the body of an answered POST can do
BodyOutcomes == {"ok", "fail"}

\* executeTool: every outcome becomes a string.  A thrown exception of
\* fetch() is caught by the try/catch.  A failed read of the body is caught
\* by the same try/catch in index.ts; part_000 reads with .catch(() => ...),
\* so that the result is that of an empty body: {} after a success, the
\* status line after a failure.
executeTool(copy, out, body) ==
    [threw |-> FALSE,
     result |-> CASE out = "throw" -> RES_EXEC_THROW
                  [] out # "throw" /\ body = "fail" /\ copy = COPY_INDEX -> RES_EXEC_BODY
                  [] out = "ok" /\ body = "fail" /\ copy = COPY_PART -> RES_EXEC_EMPTY
                  [] out = "http500" /\ body = "fail" /\ copy = COPY_PART -> RES_EXEC_HTTP
                  [] out = "ok" /\ body # "fail" -> RES_EXEC_OK
                  [] out = "http500" /\ body # "fail" -> RES_EXEC_HTTP]

\* variant of postToSendWhatsappWebHook that throws on a non-success status
postToSendWhatsappWebHook_ThrowsOnStatus(out) ==
    CASE out = "ok" -> [threw |-> FALSE, result |-> RES_SEND_OK]
      [] out = "http500" -> [threw |-> TRUE, result |-> ""]
      [] out = "throw" -> [threw |-> TRUE, result |-> ""]

\* postToSendWhatsappWebHook and JSON.stringify(r): a non-success status
\* becomes {ok:false,...}, with an empty detail also when the body cannot be
\* read (.catch(() => '')); an exception of fetch() is not caught here
postToSendWhatsappWebHook(out) ==
    CASE out = "ok" -> [threw |-> FALSE, result |-> RES_SEND_OK]
      [] out = "http500" -> [threw |-> FALSE, result |-> RES_SEND_HTTP]
      [] out = "throw" -> [threw |-> TRUE, result |-> ""]

\* the helper awaits the body of the answered POST before it returns:
\* executeTool awaits response.text() or response.json(),
\* postToSendWhatsappWebHook awaits res.text() when the status is not ok
ReadsBody(name, out) ==
    IF name = TOOL_BUSCAR THEN out # "throw" ELSE out = "http500"

\* variant of PostAnswered that sends the POST of a tool once more when the
\* first one fails
PostAnswered_RetriesOnFailure(r) ==
    /\ pc[r] = "awaitTool"
    /\ \E out \in HttpOutcomes :
        LET call == CurrentCall(r)
            res == IF call.name = TOOL_BUSCAR THEN executeTool(deployed, out, "ok")
                   ELSE postToSendWhatsappWebHook(out)
            waits == ~res.threw /\ ReadsBody(call.name, out)
            last == posts[r][Len(posts[r])]
            firstTry == \A k \in 1..(Len(posts[r]) - 1) : posts[r][k].call # call.id
        IN IF out # "ok" /\ firstTry
           THEN /\ posts' = [posts EXCEPT ![r] =
                       Append([@ EXCEPT ![Len(@)].out = out], [last EXCEPT !.out = "pending"])]
                /\ UNCHANGED <<inFlight, pc, response, agentResponse, messages, toolCalls,
                               toolCallsExecuted, idx>>
           ELSE /\ posts' = [posts EXCEPT ![r][Len(posts[r])] =
                                [@ EXCEPT !.out = out,
                                          !.body = IF waits THEN "pending" ELSE "none"]]
                /\ inFlight' = [inFlight EXCEPT ![r] = @ - 1]
                /\ IF res.threw THEN OpenAICatch(r)
                   ELSE IF waits
                        THEN /\ pc' = [pc EXCEPT ![r] = "awaitBody"]
                             /\ UNCHANGED <<response, agentResponse, messages, toolCalls,
                                            toolCallsExecuted, idx>>
                        ELSE AppendResult(r, call, res.result)
    /\ UNCHANGED <<pIn, pOut, deployed, req, store, history, completions, inserts, rpcs>>

\* the awaited fetch() of the POST is answered: an exception becomes the
\* result (executeTool) or leaves the loop for the OpenAI catch (messaging);
\* a success of a messaging POST is the result at once; otherwise the
\* helper goes on to await the body
PostAnswered(r) ==
    /\ pc[r] = "awaitTool"
    /\ inFlight' = [inFlight EXCEPT ![r] = @ - 1]
    /\ \E out \in HttpOutcomes :
        LET call == CurrentCall(r)
            res == IF call.name = TOOL_BUSCAR THEN executeTool(deployed, out, "ok")
                   ELSE postToSendWhatsappWebHook(out)
            waits == ~res.threw /\ ReadsBody(call.name, out)
        IN /\ posts' = [posts EXCEPT ![r][Len(posts[r])] =
                           [@ EXCEPT !.out = out,
                                     !.body = IF waits THEN "pending" ELSE "none"]]
           /\ IF res.threw THEN OpenAICatch(r)
              ELSE IF waits
                   THEN /\ pc' = [pc EXCEPT ![r] = "awaitBody"]
                        /\ UNCHANGED <<response, agentResponse, messages, toolCalls,
                                       toolCallsExecuted, idx>>
                   ELSE AppendResult(r, call, res.result)
    /\ UNCHANGED <<pIn, pOut, deployed, req, store, history, completions, inserts, rpcs>>

\* the awaited body of the answered POST is read, or the read fails: the
\* helper returns and the result is appended.  The log keeps whether the
\* read of executeTool failed; the detail postToSendWhatsappWebHook reads
\* is '' either way (res.text().catch(() => '')).
ToolReturn(r) ==
    /\ pc[r] = "awaitBody"
    /\ \E body \in BodyOutcomes :
        LET call == CurrentCall(r)
            out == posts[r][Len(posts[r])].out
            res == IF call.name = TOOL_BUSCAR THEN executeTool(deployed, out, body)
                   ELSE postToSendWhatsappWebHook(out)
            awaited == IF call.name = TOOL_BUSCAR THEN body ELSE "ok"
        IN /\ posts' = [posts EXCEPT ![r][Len(posts[r])].body = awaited]
           /\ AppendResult(r, call, res.result)
    /\ UNCHANGED <<pIn, pOut, deployed, req, store, history, completions, inserts, rpcs, inFlight>>

\* variant of FinalCompletion that dispatches the tool calls of its answer
\* as the first completion does
FinalCompletion_Redispatches(r) ==
    /\ pc[r] = "complete2"
    /\ \E out \in FinalOutcomes :
        /\ ~req[r].hasKey => ~out.ok
        /\ completions' = [completions EXCEPT ![r] =
               Append(@, [tools |-> FALSE, nmsgs |-> Len(messages[r]),
                          ok |-> out.ok, content |-> out.content])]
        /\ IF ~out.ok
           THEN OpenAICatch(r)
           ELSE IF out.tool_calls # <<>>
                THEN /\ toolCalls' = [toolCalls EXCEPT ![r] = out.tool_calls]
                     /\ idx' = [idx EXCEPT ![r] = 1]
                     /\ pc' = [pc EXCEPT ![r] = "loop"]
                     /\ UNCHANGED <<response, agentResponse, messages, toolCallsExecuted>>
                ELSE /\ agentResponse' = [agentResponse EXCEPT ![r] = ContentOrDefault(out.content)]
                     /\ pc' = [pc EXCEPT ![r] = "insertAssistant"]
                     /\ UNCHANGED <<response, messages, toolCalls, toolCallsExecuted, idx>>
    /\ UNCHANGED <<pIn, pOut, deployed, req, store, history, posts, inserts, rpcs, inFlight>>

\* the finalizing completion call, without tools, answered with one of
\* outs; tool calls in its answer are not looked at
FinalCompletionWith(r, outs) ==
    /\ pc[r] = "complete2"
    /\ \E out \in outs :
        /\ ~req[r].hasKey => ~out.ok
        /\ completions' = [completions EXCEPT ![r] =
               Append(@, [tools |-> FALSE, nmsgs |-> Len(messages[r]),
                          ok |-> out.ok, content |-> out.content])]
        /\ IF ~out.ok
           THEN OpenAICatch(r)
           ELSE /\ agentResponse' = [agentResponse EXCEPT ![r] = ContentOrDefault(out.content)]
                /\ pc' = [pc EXCEPT ![r] = "insertAssistant"]
                /\ UNCHANGED <<response, messages, toolCalls, toolCallsExecuted, idx>>
    /\ UNCHANGED <<pIn, pOut, deployed, req, store, history, posts, inserts, rpcs, inFlight>>

FinalCompletion(r) == FinalCompletionWith(r, FinalOutcomes)

\* variant of InsertAssistant that treats a failed insert like a failed
\* insert of the user turn: the error is thrown to the outer catch
InsertAssistant_FailsOnError(r) ==
    /\ pc[r] = "insertAssistant"
    /\ \E ok \in BOOLEAN :
        /\ inserts' = [inserts EXCEPT ![r] =
               Append(@, [conversation_id |-> req[r].body.conversationId, role |-> "assistant",
                          content |-> agentResponse[r], ok |-> ok,
                          at |-> Len(store) + 1])]
        /\ IF ok
           THEN /\ store' = Append(store, Row(req[r].body.conversationId, "assistant",
                                              agentResponse[r]))
                /\ Return(r, SuccessEnvelope(agentResponse[r], toolCallsExecuted[r],
                                             Len(history[r]),
                                             EnvelopePhone(deployed, req[r].body.userPhone)))
           ELSE /\ OuterCatch(r)
                /\ UNCHANGED store
    /\ UNCHANGED <<pIn, pOut, deployed, req, history, messages, toolCalls, idx, toolCallsExecuted,
                   agentResponse, completions, posts, rpcs, inFlight>>

\* variant of InsertAssistant that tries the insert once more after a failure
InsertAssistant_Retries(r) ==
    /\ pc[r] = "insertAssistant"
    /\ \E ok \in BOOLEAN :
        /\ inserts' = [inserts EXCEPT ![r] =
               Append(@, [conversation_id |-> req[r].body.conversationId, role |-> "assistant",
                          content |-> agentResponse[r], ok |-> ok,
                          at |-> Len(store) + 1])]
        /\ store' = IF ok THEN Append(store, Row(req[r].body.conversationId, "assistant",
                                                 agentResponse[r]))
                    ELSE store
        /\ IF ok \/ Len(inserts[r]) >= 2
           THEN Return(r, SuccessEnvelope(agentResponse[r], toolCallsExecuted[r],
                                          Len(history[r]),
                                          EnvelopePhone(deployed, req[r].body.userPhone)))
           ELSE UNCHANGED <<pc, response>>
    /\ UNCHANGED <<pIn, pOut, deployed, req, history, messages, toolCalls, idx, toolCallsExecuted,
                   agentResponse, completions, posts, rpcs, inFlight>>

\* 6. and 7. insert the assistant turn (an error is only logged) and return
\* the success envelope
InsertAssistant(r) ==
    /\ pc[r] = "insertAssistant"
    /\ \E ok \in BOOLEAN :
        /\ inserts' = [inserts EXCEPT ![r] =
               Append(@, [conversation_id |-> req[r].body.conversationId, role |-> "assistant",
                          content |-> agentResponse[r], ok |-> ok,
                          at |-> Len(store) + 1])]
        /\ store' = IF ok THEN Append(store, Row(req[r].body.conversationId, "assistant",
                                                 agentResponse[r]))
                    ELSE store
    /\ Return(r, SuccessEnvelope(agentResponse[r], toolCallsExecuted[r], Len(history[r]),
                                  EnvelopePhone(deployed, req[r].body.userPhone)))
    /\ UNCHANGED <<pIn, pOut, deployed, req, history, messages, toolCalls, idx, toolCallsExecuted,
                   agentResponse, completions, posts, rpcs, inFlight>>

Next ==
    \E r \in Reqs :
        \/ MethodNotAllowed(r)
        \/ InitClients(r)
        \/ InitClientsThrows(r)
        \/ ParseBody(r)
        \/ InsertUser(r)
        \/ FetchHistory(r)
        \/ FirstCompletion(r)
        \/ DispatchTool(r)
        \/ PostAnswered(r)
        \/ ToolReturn(r)
        \/ FinalCompletion(r)
        \/ InsertAssistant(r)

Spec == Init /\ [][Next]_vars

\* ===================================================== the WhatsApp adapter
\* The helpers and the three tool wrappers, applied to inputs drawn from
\* bounded sets.  An optional array (args.buttons, args.sections, s.rows)
\* is a set: empty for undefined, else holding the array.

\* (s ?? '').slice(0, n)
trunc(str, n) ==
    LET t == IF str = NoStr THEN <<>> ELSE str IN
    SubSeq(t, 1, IF Len(t) < n THEN Len(t) ELSE n)
trunc20(str) == trunc(str, 20)
trunc24(str) == trunc(str, 24)
trunc60(str) == trunc(str, 60)
trunc72(str) == trunc(str, 72)

\* (a || [])
OrEmpty(a) == IF a = {} THEN <<>> ELSE CHOOSE l \in a : TRUE

\* a.slice(0, n)
Slice(a, n) == SubSeq(a, 1, IF Len(a) < n THEN Len(a) ELSE n)

\* tool_send_whatsapp_text: the body handed to postToSendWhatsappWebHook
tool_send_whatsapp_text(args) ==
    [to |-> normPhone(args.to),
     message_type |-> "text",
     payload |-> [text |-> trunc(args.text, 1024), reply_to |-> args.reply_to]]

\* variant of tool_send_whatsapp_buttons without .slice(0, 3)
tool_send_whatsapp_buttons_NoSlice(args) ==
    [to |-> normPhone(args.to),
     message_type |-> "interactive",
     payload |->
        [type |-> "button",
         header |-> IF FalsySeq(args.header) THEN NoStr ELSE trunc60(args.header),
         body |-> trunc(args.body, 1024),
         footer |-> IF FalsySeq(args.footer) THEN NoStr ELSE trunc60(args.footer),
         buttons |->
            LET bs == OrEmpty(args.buttons) IN
            [i \in 1..Len(bs) |->
                [type |-> "reply", id |-> bs[i].id, title |-> trunc20(bs[i].text)]]]]

\* tool_send_whatsapp_buttons
tool_send_whatsapp_buttons(args) ==
    [to |-> normPhone(args.to),
     message_type |-> "interactive",
     payload |->
        [type |-> "button",
         header |-> IF FalsySeq(args.header) THEN NoStr ELSE trunc60(args.header),
         body |-> trunc(args.body, 1024),
         footer |-> IF FalsySeq(args.footer) THEN NoStr ELSE trunc60(args.footer),
         buttons |->
            LET bs == Slice(OrEmpty(args.buttons), 3) IN
            [i \in 1..Len(bs) |->
                [type |-> "reply", id |-> bs[i].id, title |-> trunc20(bs[i].text)]]]]

\* the rows of one section of a list payload
ListRows(sec) ==
    LET rs == Slice(OrEmpty(sec.rows), 10) IN
    [j \in 1..Len(rs) |->
        [id |-> rs[j].id, title |-> trunc24(rs[j].title),
         description |-> IF FalsySeq(rs[j].description) THEN NoStr
                         ELSE trunc72(rs[j].description)]]

\* tool_send_whatsapp_list
tool_send_whatsapp_list(args) ==
    [to |-> normPhone(args.to),
     message_type |-> "interactive",
     payload |->
        [type |-> "list",
         header |-> IF FalsySeq(args.header) THEN NoStr ELSE trunc60(args.header),
         body |-> trunc(args.body, 1024),
         footer |-> IF FalsySeq(args.footer) THEN NoStr ELSE trunc60(args.footer),
         button |-> trunc20(args.button),
         sections |->
            LET ss == Slice(OrEmpty(args.sections), 10) IN
            [i \in 1..Len(ss) |-> [title |-> trunc24(ss[i].title), rows |-> ListRows(ss[i])]]]]

\* ------------------------------------------------------- adapter inputs
PhoneAlphabet == {"5", "1", "+", "a"}
PhoneStrings(n) == SeqsUpTo(PhoneAlphabet, n) \cup {NoStr}

SHORT_TEXT == <<"o", "i">>
LONG_TEXT == [i \in 1..25 |-> "x"]

\* k buttons with ids 1..k
MkButtons(k, text) == [i \in 1..k |-> [id |-> i, text |-> text]]

\* k sections of r rows each; section i is titled with i letters and its
\* row j has id 100 * i + j
MkRows(i, r) ==
    [j \in 1..r |-> [id |-> 100 * i + j, title |-> SHORT_TEXT, description |-> NoStr]]
MkSections(k, r) ==
    [i \in 1..k |-> [title |-> [c \in 1..i |-> "s"], rows |-> {MkRows(i, r)}]]

\* the arguments of a messaging tool call, as JSON.parse returns them
MkArgs(to, buttons, sections) ==
    [to |-> to, text |-> SHORT_TEXT, reply_to |-> NoStr, body |-> SHORT_TEXT,
     header |-> NoStr, footer |-> LONG_TEXT, button |-> LONG_TEXT,
     buttons |-> buttons, sections |-> sections]

ButtonInputs ==
    {{}} \cup {{MkButtons(k, t)} : k \in 0..MaxButtons, t \in {SHORT_TEXT, LONG_TEXT}}

SectionInputs ==
    {{}, {<<[title |-> SHORT_TEXT, rows |-> {}]>>}}
    \cup {{MkSections(k, r)} : k \in 0..MaxSections, r \in 0..MaxRows}

\* a tool call of the dispatch chain: every destination with one payload, and
\* every payload with one destination
DispatchInputs ==
    [fn : {"dispatch"}, name : MessagingTools, userPhone : PhoneStrings(MaxToLen),
     args : {MkArgs(to, {MkButtons(2, SHORT_TEXT)}, {MkSections(1, 1)}) :
                to \in PhoneStrings(MaxToLen)}]
    \cup
    [fn : {"dispatch"}, name : {TOOL_BUTTONS}, userPhone : {NoStr},
     args : {MkArgs(PHONE_ARG, b, {}) : b \in ButtonInputs}]
    \cup
    [fn : {"dispatch"}, name : {TOOL_LIST}, userPhone : {NoStr},
     args : {MkArgs(PHONE_ARG, {}, x) : x \in SectionInputs}]

NormPhoneInputs == [fn : {"normPhone"}, x : PhoneStrings(MaxPhoneLen)]

\* the handler is idle; one input of one adapter function is chosen
InitAdapter ==
    /\ deployed \in Handlers
    /\ pc = [r \in Reqs |-> "off"]
    /\ req = [r \in Reqs |->
                [method |-> "GET", hasKey |-> TRUE,
                 body |-> [kind |-> "null", conversationId |-> Undef,
                           newMessage |-> Undef, userPhone |-> NoStr]]]
    /\ store = <<>>
    /\ history = [r \in Reqs |-> <<>>]
    /\ messages = [r \in Reqs |-> <<>>]
    /\ toolCalls = [r \in Reqs |-> <<>>]
    /\ idx = [r \in Reqs |-> 0]
    /\ toolCallsExecuted = [r \in Reqs |-> 0]
    /\ agentResponse = [r \in Reqs |-> ""]
    /\ response = [r \in Reqs |-> NoResponse]
    /\ completions = [r \in Reqs |-> <<>>]
    /\ posts = [r \in Reqs |-> <<>>]
    /\ inserts = [r \in Reqs |-> <<>>]
    /\ rpcs = [r \in Reqs |-> <<>>]
    /\ inFlight = [r \in Reqs |-> 0]
    /\ pOut = <<>>
    /\ \/ pIn \in NormPhoneInputs
       \/ pIn \in DispatchInputs

\* normPhone applied to the input, and again to its own result
ApplyNormPhone ==
    /\ pIn.fn = "normPhone"
    /\ Len(pOut) < 2
    /\ pOut' = Append(pOut, normPhone(IF pOut = <<>> THEN pIn.x ELSE pOut[Len(pOut)]))
    /\ UNCHANGED <<pIn, handlerVars>>

\* the arguments a wrapper receives from the dispatch chain
WrapperArgs == [pIn.args EXCEPT !.to = WrapperTo(deployed, @, pIn.userPhone)]

\* send_whatsapp / send_whatsapp_text
SendText ==
    /\ pIn.fn = "dispatch"
    /\ pIn.name \in {TOOL_LEGACY, TOOL_TEXT}
    /\ pOut = <<>>
    /\ pOut' = <<tool_send_whatsapp_text(WrapperArgs)>>
    /\ UNCHANGED <<pIn, handlerVars>>

\* send_whatsapp_buttons
SendButtons ==
    /\ pIn.fn = "dispatch"
    /\ pIn.name = TOOL_BUTTONS
    /\ pOut = <<>>
    /\ pOut' = <<tool_send_whatsapp_buttons(WrapperArgs)>>
    /\ UNCHANGED <<pIn, handlerVars>>

\* send_whatsapp_list
SendList ==
    /\ pIn.fn = "dispatch"
    /\ pIn.name = TOOL_LIST
    /\ pOut = <<>>
    /\ pOut' = <<tool_send_whatsapp_list(WrapperArgs)>>
    /\ UNCHANGED <<pIn, handlerVars>>

NextAdapter == ApplyNormPhone \/ SendText \/ SendButtons \/ SendList

SpecAdapter == InitAdapter /\ [][NextAdapter]_vars

\* ===================================================== concurrent requests
\* Two requests are handled at once by the same Worker against the same
\* store: every await of one can be followed by a step of the other.  The
\* first request is a valid POST on conversation c1; the second is a valid
\* POST on the same or on another conversation, or one that is refused.
\* The completion API answers with text or with one call of a tool.
ConcBody(cid, msg) ==
    [kind |-> "object", conversationId |-> cid, newMessage |-> msg, userPhone |-> NoStr]

ConcRequests ==
    [r \in Reqs |->
        IF r = "r1"
        THEN {[method |-> "POST", hasKey |-> TRUE, body |-> ConcBody("c1", "oi")]}
        ELSE {[method |-> "POST", hasKey |-> TRUE, body |-> ConcBody("c1", "quero treinar")],
              [method |-> "POST", hasKey |-> TRUE, body |-> ConcBody("c2", "quero treinar")],
              [method |-> "POST", hasKey |-> FALSE, body |-> ConcBody("c1", "quero treinar")],
              [method |-> "GET", hasKey |-> TRUE, body |-> ConcBody("c1", "quero treinar")]}]

ConcToolCallLists ==
    {<<>>,
     <<[id |-> 1, name |-> TOOL_BUSCAR, argsOk |-> TRUE, to |-> NoStr]>>,
     <<[id |-> 1, name |-> TOOL_TEXT, argsOk |-> TRUE, to |-> PHONE_ARG]>>}

\* the answers of the completion API in the concurrent runs
ConcFirstOutcomes ==
    {out \in FirstOutcomes \cap
                [ok : BOOLEAN, content : Contents, tool_calls : ConcToolCallLists] :
        (out.ok /\ out.tool_calls = <<>>) => ~Falsy(out.content)}

ConcFinalOutcomes ==
    {out \in FinalOutcomes : (out.ok => ~Falsy(out.content)) /\ out.tool_calls = <<>>}

InitConc ==
    /\ deployed \in Handlers
    /\ pc = [r \in Reqs |-> "start"]
    /\ req \in {f \in [Reqs -> UNION {ConcRequests[r] : r \in Reqs}] :
                    \A r \in Reqs : f[r] \in ConcRequests[r]}
    /\ store \in InitialStores
    /\ history = [r \in Reqs |-> <<>>]
    /\ messages = [r \in Reqs |-> <<>>]
    /\ toolCalls = [r \in Reqs |-> <<>>]
    /\ idx = [r \in Reqs |-> 0]
    /\ toolCallsExecuted = [r \in Reqs |-> 0]
    /\ agentResponse = [r \in Reqs |-> ""]
    /\ response = [r \in Reqs |-> NoResponse]
    /\ completions = [r \in Reqs |-> <<>>]
    /\ posts = [r \in Reqs |-> <<>>]
    /\ inserts = [r \in Reqs |-> <<>>]
    /\ rpcs = [r \in Reqs |-> <<>>]
    /\ inFlight = [r \in Reqs |-> 0]
    /\ pIn = [fn |-> "none"]
    /\ pOut = <<>>

FirstCompletionConc(r) == FirstCompletionWith(r, ConcFirstOutcomes)

FinalCompletionConc(r) == FinalCompletionWith(r, ConcFinalOutcomes)

NextConc ==
    \E r \in Reqs :
        \/ MethodNotAllowed(r)
        \/ InitClients(r)
        \/ InitClientsThrows(r)
        \/ ParseBody(r)
        \/ InsertUser(r)
        \/ FetchHistory(r)
        \/ FirstCompletionConc(r)
        \/ DispatchTool(r)
        \/ PostAnswered(r)
        \/ ToolReturn(r)
        \/ FinalCompletionConc(r)
        \/ InsertAssistant(r)

SpecConc == InitConc /\ [][NextConc]_vars

\* ================================================================= claims
\* the body has no non-empty conversationId or no non-empty newMessage
Lacks(body) ==
    body.conversationId \in {Undef, ""} \/ body.newMessage \in {Undef, ""}

AllArgsParse(r) == \A i \in DOMAIN toolCalls[r] : toolCalls[r][i].argsOk

\* the message list holds a tool-role entry for the tool call with this id
HasToolEntry(r, id) ==
    \E m \in DOMAIN messages[r] :
        messages[r][m].role = "tool" /\ messages[r][m].tool_call_id = id

UserInsertFailed(r) ==
    \E k \in DOMAIN inserts[r] : inserts[r][k].role = "user" /\ ~inserts[r][k].ok

HistoryFetchFailed(r) == \E k \in DOMAIN rpcs[r] : rpcs[r][k].out = "error"

AssistantInsertAttempted(r) ==
    \E k \in DOMAIN inserts[r] : inserts[r][k].role = "assistant"

\* C1: once the tool-dispatch loop is over, every tool call the model
\* returned (with parseable arguments) has been dispatched and has a string
\* result in the message list, whatever failed in an earlier call: a failing
\* call is caught for itself and the remaining calls still run.
C1_ToolFailureIsolated ==
    \A r \in Reqs :
        (pc[r] \in {"complete2", "insertAssistant", "done"}
            /\ toolCalls[r] # <<>> /\ AllArgsParse(r))
        => \A i \in DOMAIN toolCalls[r] : HasToolEntry(r, toolCalls[r][i].id)

\* C2: when the first or the finalizing completion call fails, the request
\* ends with the success envelope (200, success:true) whose response is the
\* fixed fallback text, and that text was submitted to the store as the
\* assistant turn.
C2_CompletionFailureFallsBack ==
    \A r \in Reqs :
        (pc[r] = "done" /\ \E k \in DOMAIN completions[r] : ~completions[r][k].ok)
        => /\ response[r].status = 200
           /\ response[r].body = "json"
           /\ response[r].success
           /\ response[r].text =
                "Desculpe, ocorreu um erro interno. Tente novamente em alguns instantes."
           /\ inserts[r] # <<>>
           /\ inserts[r][Len(inserts[r])].role = "assistant"
           /\ inserts[r][Len(inserts[r])].content = response[r].text

\* a request whose finalizing completion failed after tool calls has returned
C2_Witness ==
    \E r \in Reqs :
        /\ pc[r] = "done"
        /\ Len(completions[r]) = 2
        /\ ~completions[r][2].ok
        /\ response[r].success

\* C3: a failed insert of the user turn or a failed history fetch ends the
\* request at once with status 500: no completion call, no outbound POST, no
\* insert of an assistant turn, and after a failed user insert no history
\* fetch either.
C3_StoreFailureIsFatal ==
    \A r \in Reqs :
        (UserInsertFailed(r) \/ HistoryFetchFailed(r))
        => /\ pc[r] = "done"
           /\ response[r].status = 500
           /\ ~response[r].success
           /\ completions[r] = <<>>
           /\ posts[r] = <<>>
           /\ ~AssistantInsertAttempted(r)
           /\ UserInsertFailed(r) => rpcs[r] = <<>>

\* a request ended by a failed history fetch after a successful user insert
C3_Witness ==
    \E r \in Reqs :
        /\ pc[r] = "done"
        /\ HistoryFetchFailed(r)
        /\ Len(inserts[r]) = 1
        /\ inserts[r][1].ok

\* C4: a POST request whose JSON body lacks a non-empty conversationId or a
\* non-empty newMessage is answered with status 400, and neither it nor a
\* request whose body cannot be parsed ever writes to the store.
C4_MissingFieldsAreRejected ==
    \A r \in Reqs :
        (req[r].method = "POST" /\ (req[r].body.kind # "object" \/ Lacks(req[r].body)))
        => /\ inserts[r] = <<>>
           /\ (req[r].body.kind = "object" /\ pc[r] = "done")
                => (response[r].status = 400 /\ ~response[r].success)

\* a request with a conversationId and an empty newMessage was answered
C4_Witness ==
    \E r \in Reqs :
        /\ pc[r] = "done"
        /\ req[r].method = "POST"
        /\ req[r].body.kind = "object"
        /\ req[r].body.conversationId = "c1"
        /\ req[r].body.newMessage = ""
        /\ response[r].status = 400

\* C5: an otherwise valid request handled without the model-provider key
\* ends with status 500 and a JSON envelope whose success field is false.
C5_MissingKeyYieldsFailureEnvelope ==
    \A r \in Reqs :
        (req[r].method = "POST" /\ ~req[r].hasKey /\ req[r].body.kind = "object"
            /\ ~Lacks(req[r].body) /\ pc[r] \in {"done", "thrown"})
        => /\ response[r].status = 500
           /\ response[r].body = "json"
           /\ ~response[r].success


\* a messaging POST ended in an exception
MessagingThrew(r) ==
    \E k \in DOMAIN posts[r] :
        posts[r][k].url = "/tool/send-whatsapp" /\ posts[r][k].out = "throw"

\* every dispatch of the request returned to the loop
DispatchesReturned(r) == AllArgsParse(r) /\ ~MessagingThrew(r)

\* the finalizing completion answered with a non-empty text
FinalText(r) ==
    /\ Len(completions[r]) = 2
    /\ completions[r][2].ok
    /\ completions[r][2].content \notin {NullStr, ""}

ToolEntries(r) == {m \in DOMAIN messages[r] : messages[r][m].role = "tool"}

\* C6: when the first completion returns n >= 1 tool calls, every dispatch
\* returns and the finalizing completion answers text t, the response is
\* 200 / success:true with toolCallsExecuted = n and response = t.
C6_ToolRoundTripSucceeds ==
    \A r \in Reqs :
        (pc[r] = "done" /\ toolCalls[r] # <<>> /\ DispatchesReturned(r))
        => /\ Len(completions[r]) = 2
           /\ FinalText(r)
                => /\ response[r].status = 200
                   /\ response[r].body = "json"
                   /\ response[r].success
                   /\ response[r].toolCallsExecuted = Len(toolCalls[r])
                   /\ response[r].toolCallsExecuted >= 1
                   /\ response[r].text = completions[r][2].content

\* a request with two tool calls, the first a catalog search, got the final text
C6_Witness ==
    \E r \in Reqs :
        /\ pc[r] = "done"
        /\ Len(toolCalls[r]) = 2
        /\ toolCalls[r][1].name = TOOL_BUSCAR
        /\ DispatchesReturned(r)
        /\ FinalText(r)
        /\ response[r].toolCallsExecuted = 2

\* C7: a tool POST answered with a non-success status yields, once the
\* helper has read the body of the answer (or failed to), a failure string
\* as the result of that call (the status line, or the message of the
\* failed read where index.ts lets it reach the catch of executeTool),
\* appended under the call's id; when
\* every dispatch returned, the finalizing completion is invoked with that
\* entry in its message list and its text is returned with success:true.
C7_HttpErrorBecomesResult ==
    \A r \in Reqs : \A k \in DOMAIN posts[r] :
        (posts[r][k].out = "http500" /\ posts[r][k].body \in {"ok", "fail"})
        => \E m \in DOMAIN messages[r] :
            /\ messages[r][m].role = "tool"
            /\ messages[r][m].tool_call_id = posts[r][k].call
            /\ messages[r][m].content =
                 (IF posts[r][k].url = "/tool/buscar-programas"
                  THEN IF posts[r][k].body = "ok" \/ deployed = COPY_PART
                       THEN "Erro na ferramenta buscar-programas: Internal Server Error"
                       ELSE "Erro interno na ferramenta: Unexpected end of JSON input"
                  ELSE "{\"ok\":false,\"error\":{\"code\":\"HTTP_500\",\"detail\":\"\"}}")
            /\ (pc[r] = "done" /\ DispatchesReturned(r))
                 => /\ Len(completions[r]) = 2
                    /\ ~completions[r][2].tools
                    /\ completions[r][2].nmsgs >= m
                    /\ FinalText(r) => (response[r].success
                                        /\ response[r].text = completions[r][2].content)

\* the messaging webhook answered 500 and the request still returned the
\* text of the finalizing completion
C7_Witness ==
    \E r \in Reqs :
        /\ pc[r] = "done"
        /\ \E k \in DOMAIN posts[r] :
              posts[r][k].url = "/tool/send-whatsapp" /\ posts[r][k].out = "http500"
        /\ FinalText(r)
        /\ response[r].success

\* C8: the counter always equals the number of tool-role entries, and once
\* the dispatch loop is over every tool call the model returned (with
\* parseable arguments) has exactly one tool-role entry and the counter
\* equals the number of tool calls.
C8_EveryCallCountedOnce ==
    \A r \in Reqs :
        /\ toolCallsExecuted[r] = Cardinality(ToolEntries(r))
        /\ (pc[r] \in {"complete2", "insertAssistant", "done"}
               /\ toolCalls[r] # <<>> /\ AllArgsParse(r))
            => /\ toolCallsExecuted[r] = Len(toolCalls[r])
               /\ \A i \in DOMAIN toolCalls[r] :
                    Cardinality({m \in ToolEntries(r) :
                        messages[r][m].tool_call_id = toolCalls[r][i].id}) = 1

\* C9: at most two completion calls per request; the first offers the tools;
\* the second is made only after the first returned tool calls and all of
\* them were processed, offers no tools, and nothing is dispatched after it;
\* without tool calls there is exactly one completion call.
C9_AtMostTwoCompletions ==
    \A r \in Reqs :
        /\ Len(completions[r]) <= 2
        /\ Len(completions[r]) >= 1 => completions[r][1].tools
        /\ Len(completions[r]) = 2
            => /\ completions[r][1].ok
               /\ toolCalls[r] # <<>>
               /\ \A i \in DOMAIN toolCalls[r] : HasToolEntry(r, toolCalls[r][i].id)
               /\ toolCallsExecuted[r] = Len(toolCalls[r])
               /\ completions[r][2].nmsgs = completions[r][1].nmsgs + 1 + Len(toolCalls[r])
               /\ ~completions[r][2].tools
               /\ pc[r] \in {"insertAssistant", "done"}
               /\ inFlight[r] = 0
               /\ Len(posts[r]) <= Len(toolCalls[r])
               /\ \A k \in DOMAIN posts[r] :
                      posts[r][k].out # "pending" /\ posts[r][k].body # "pending"
        /\ (pc[r] = "done" /\ completions[r] # <<>> /\ toolCalls[r] = <<>>)
            => Len(completions[r]) = 1

\* two tool calls were processed and the second completion was made
C9_Witness ==
    \E r \in Reqs :
        /\ Len(completions[r]) = 2
        /\ Len(toolCalls[r]) = 2
        /\ Len(posts[r]) = 2
        /\ pc[r] = "done"

\* C10: the tool calls are dispatched in the order the model returned them,
\* one at a time: at most one outbound POST is in flight, it is the latest
\* one, every call before it already has its result, and the tool results
\* are in the message list in the order of their calls.
C10_SequentialDispatch ==
    \A r \in Reqs :
        /\ inFlight[r] <= 1
        /\ inFlight[r] = Cardinality({k \in DOMAIN posts[r] : posts[r][k].out = "pending"})
        /\ \A k \in DOMAIN posts[r] :
            /\ posts[r][k].out = "pending" => k = Len(posts[r])
            /\ posts[r][k].call \in DOMAIN toolCalls[r]
            /\ posts[r][k].url = ToolUrl(toolCalls[r][posts[r][k].call].name)
            /\ \A i \in 1..(posts[r][k].call - 1) : HasToolEntry(r, toolCalls[r][i].id)
            /\ \A j \in DOMAIN posts[r] : j < k => posts[r][j].call < posts[r][k].call
        /\ \A m, n \in ToolEntries(r) :
            m < n => messages[r][m].tool_call_id < messages[r][n].tool_call_id

\* the second of two outbound POSTs is in flight after the first was answered
C10_Witness ==
    \E r \in Reqs :
        /\ Len(posts[r]) = 2
        /\ posts[r][1].out # "pending"
        /\ posts[r][2].out = "pending"
        /\ inFlight[r] = 1


\* the for-of loop has reached the await of tool call i, or is past it
Reached(r, i) ==
    \/ idx[r] > i
    \/ idx[r] = i /\ pc[r] \in {"awaitTool", "awaitBody", "insertAssistant", "done"}

\* C11: a messaging tool call (text, legacy alias, buttons, list) whose
\* arguments omit `to`, in a request that supplied userPhone, is posted to
\* the messaging webhook with `to` = normPhone(userPhone).
C11_UserPhoneSubstituted ==
    \A r \in Reqs : \A i \in DOMAIN toolCalls[r] :
        (/\ toolCalls[r][i].name \in MessagingTools
         /\ toolCalls[r][i].argsOk
         /\ toolCalls[r][i].to = NoStr
         /\ req[r].body.userPhone # NoStr
         /\ Reached(r, i))
        => \E k \in DOMAIN posts[r] :
            /\ posts[r][k].call = toolCalls[r][i].id
            /\ posts[r][k].url = "/tool/send-whatsapp"
            /\ posts[r][k].to = normPhone(req[r].body.userPhone)

\* C12: when the insert of the assistant turn fails, the request still ends
\* with the 200 success envelope, and the envelope carries the very text the
\* failed insert tried to store.
C12_AssistantInsertFailureTolerated ==
    \A r \in Reqs : \A k \in DOMAIN inserts[r] :
        (inserts[r][k].role = "assistant" /\ ~inserts[r][k].ok)
        => /\ pc[r] = "done"
           /\ response[r].status = 200
           /\ response[r].body = "json"
           /\ response[r].success
           /\ response[r].text = inserts[r][k].content
           /\ response[r].text = agentResponse[r]

C12_Witness ==
    \E r \in Reqs : \E k \in DOMAIN inserts[r] :
        /\ inserts[r][k].role = "assistant"
        /\ ~inserts[r][k].ok
        /\ inserts[r][k].content = "Aqui estao alguns programas."
        /\ response[r].success
        /\ response[r].text = "Aqui estao alguns programas."
        /\ response[r].toolCallsExecuted = 2

\* the tool calls of the request that name no tool the handler knows
UnknownCalls(r) ==
    {i \in DOMAIN toolCalls[r] : toolCalls[r][i].name = TOOL_UNKNOWN /\ toolCalls[r][i].argsOk}

\* C13: a tool call with an unrecognized name, once the loop has taken it
\* up, is behind the loop (it took no await and threw nothing), has exactly
\* one tool-role entry holding the literal 'tool not implemented' string,
\* was never posted anywhere, and is counted as executed; the
\* handler did not leave the loop because of it: it is at the next call, or,
\* after the last call, at the finalizing completion, unless a later call
\* threw.
C13_UnknownToolIsAResult ==
    \A r \in Reqs : \A i \in UnknownCalls(r) :
        (idx[r] > i \/ (idx[r] = i /\ pc[r] # "loop"))
        => /\ idx[r] > i
           /\ Cardinality({m \in ToolEntries(r) : messages[r][m].tool_call_id = i}) = 1
           /\ \A m \in ToolEntries(r) :
                  messages[r][m].tool_call_id = i => messages[r][m].content = RES_NOT_IMPL
           /\ \A k \in DOMAIN posts[r] : posts[r][k].call # i
           /\ toolCallsExecuted[r] >= Cardinality({j \in UnknownCalls(r) : j < idx[r]})
           /\ toolCallsExecuted[r] = idx[r] - 1
           /\ pc[r] # "thrown"
           /\ (idx[r] = i + 1 /\ i < Len(toolCalls[r]))
                  => \/ pc[r] \in {"loop", "awaitTool", "awaitBody"}
                     \/ ~toolCalls[r][i + 1].argsOk
                     \/ MessagingThrew(r)
           /\ (idx[r] > Len(toolCalls[r]) /\ pc[r] # "complete2")
                  => /\ Len(completions[r]) = 2
                     /\ completions[r][2].nmsgs = Len(messages[r])
                     /\ ~completions[r][2].tools
           /\ (pc[r] = "done" /\ DispatchesReturned(r))
                  => /\ response[r].success
                     /\ response[r].toolCallsExecuted = Len(toolCalls[r])

C13_Witness ==
    \E r \in Reqs :
        /\ pc[r] = "done"
        /\ Len(toolCalls[r]) = 2
        /\ toolCalls[r][1].name = TOOL_UNKNOWN
        /\ toolCalls[r][1].argsOk
        /\ toolCalls[r][2].name = TOOL_BUSCAR
        /\ HasToolEntry(r, 1)
        /\ HasToolEntry(r, 2)
        /\ Len(posts[r]) = 1
        /\ FinalText(r)
        /\ response[r].toolCallsExecuted = 2

\* the body is not a JSON object carrying both required fields
StructurallyInvalid(body) == body.kind # "object" \/ Lacks(body)

\* the handler is over for the request: it returned or it threw
Over(r) == pc[r] \in {"done", "thrown"}

\* C14 as stated: a POST request whose body is valid and whose user insert
\* and history fetch did not fail ends with the success envelope.
C14_OnlyBodyOrStoreErrors ==
    \A r \in Reqs :
        (Over(r) /\ req[r].method = "POST" /\ ~StructurallyInvalid(req[r].body)
            /\ ~UserInsertFailed(r) /\ ~HistoryFetchFailed(r))
        => response[r].success

\* C14, amended: a POST request that the handler answers gets an error
\* response exactly when its body is structurally invalid or the store fails
\* on the user insert or the history fetch, and every other answer is the
\* 200 success envelope with a non-empty text, whatever the completions and
\* the dispatches did; the one remaining case is the missing API key, where
\* the handler may throw before it reads the request and answers nothing.
C14_ErrorsOnlyFromBodyStoreOrKey ==
    \A r \in Reqs :
        req[r].method = "POST"
        => /\ pc[r] = "done"
              => /\ response[r].success
                    <=> ~(StructurallyInvalid(req[r].body) \/ UserInsertFailed(r)
                          \/ HistoryFetchFailed(r))
                 /\ response[r].success
                    => /\ response[r].status = 200
                       /\ response[r].body = "json"
                       /\ response[r].text \notin {"", NullStr, Undef}
                 /\ ~response[r].success
                    => /\ response[r].body = "text"
                       /\ response[r].status
                            = IF req[r].body.kind = "object" /\ Lacks(req[r].body)
                              THEN 400 ELSE 500
           /\ pc[r] = "thrown"
              => /\ ~req[r].hasKey
                 /\ response[r] = NoResponse
                 /\ inserts[r] = <<>>

C14_Witness ==
    \E r \in Reqs :
        /\ pc[r] = "done"
        /\ req[r].hasKey
        /\ idx[r] > 1
        /\ MessagingThrew(r)
        /\ response[r].success
        /\ response[r].text = FALLBACK_ERROR
        /\ response[r].toolCallsExecuted = 1

\* the characters of s from position n on
From(s, n) == SubSeq(s, n, Len(s))

StartsWith55(s) == Len(s) >= 2 /\ s[1] = "5" /\ s[2] = "5"

OnlyDigits(s) == \A i \in DOMAIN s : s[i] \in Digits

\* C15: normPhone answers for every input string, normPhone(normPhone(x))
\* = normPhone(x), and for an input containing digits the result is "+"
\* followed by the digits of the input, preceded by 55 when they do not
\* start with 55 themselves.
C15_NormPhoneIdempotent ==
    pIn.fn = "normPhone"
    => /\ Len(pOut) = 2 => pOut[2] = pOut[1]
       /\ Len(pOut) >= 1
          => LET x == pIn.x
                 y == pOut[1]
                 d == DigitsOf(x)
             IN IF d = <<>>
                THEN y = x
                ELSE /\ y[1] = "+"
                     /\ OnlyDigits(From(y, 2))
                     /\ StartsWith55(From(y, 2))
                     /\ IF StartsWith55(d)
                        THEN From(y, 2) = d
                        ELSE From(y, 4) = d /\ Len(y) = Len(d) + 3

C15_Witness ==
    /\ pIn.fn = "normPhone"
    /\ pIn.x = <<"5", "a", "5", "1">>
    /\ pOut = << <<"+", "5", "5", "1">>, <<"+", "5", "5", "1">> >>

\* '+55' followed by digits
Canonical(t) ==
    /\ t # NoStr
    /\ Len(t) >= 3
    /\ t[1] = "+"
    /\ StartsWith55(From(t, 2))
    /\ OnlyDigits(From(t, 2))

\* the destination the payload is built from: in part_000 the model's `to`,
\* else the request's user_phone, else the empty string; in index.ts the
\* model's `to` as it is, absent when the model gave none
Resolved(in) ==
    IF deployed = COPY_INDEX THEN in.args.to
    ELSE IF in.args.to \notin {NoStr, <<>>} THEN in.args.to
    ELSE IF in.userPhone \notin {NoStr, <<>>} THEN in.userPhone
    ELSE <<>>

\* C16 as stated: the `to` of every payload built for the messaging webhook
\* is '+55' followed by digits, whatever the model's `to` and the request's
\* user_phone are.
C16_EveryToCanonical ==
    (pIn.fn = "dispatch" /\ pOut # <<>>) => Canonical(pOut[1].to)

\* C16, amended: the `to` of a payload built for the messaging webhook is
\* '+55' followed by digits, ending with the digits of the destination the
\* payload is built from, whenever that destination contains a digit; a
\* destination without digits is transmitted as it is (in part_000 the
\* empty string when the model's `to` and user_phone are both absent, in
\* index.ts an absent `to` when the model gave none).
C16_ToCanonicalWhenDigits ==
    (pIn.fn = "dispatch" /\ pOut # <<>>)
    => LET t == pOut[1].to
           d == SelectSeq(Resolved(pIn), LAMBDA ch : ch \in Digits)
       IN IF d # <<>>
          THEN /\ Canonical(t)
               /\ From(t, Len(t) - Len(d) + 1) = d
               /\ Len(t) \in {Len(d) + 1, Len(d) + 3}
          ELSE /\ t = Resolved(pIn)
               /\ ~Canonical(t)

C16_Witness ==
    /\ pIn.fn = "dispatch"
    /\ pIn.name = TOOL_BUTTONS
    /\ pIn.args.to = NoStr
    /\ pIn.userPhone = <<"1", "a">>
    /\ pOut # <<>>
    /\ pOut[1].to = <<"+", "5", "5", "1">>

Min(a, b) == IF a < b THEN a ELSE b

\* the array an optional argument holds, empty when it is absent
Supplied(a) == IF a = {} THEN <<>> ELSE CHOOSE l \in a : TRUE

\* C17: of k supplied buttons the payload holds the first min(3, k), in
\* their order; of k supplied sections it holds the first min(10, k), in
\* their order, each with the first min(10, r) of its r rows, in their order.
C17_ButtonsAndListsCapped ==
    /\ (pIn.fn = "dispatch" /\ pIn.name = TOOL_BUTTONS /\ pOut # <<>>)
       => LET given == Supplied(pIn.args.buttons)
              kept == pOut[1].payload.buttons
          IN /\ Len(kept) = Min(3, Len(given))
             /\ \A i \in DOMAIN kept :
                    /\ kept[i].id = given[i].id
                    /\ kept[i].type = "reply"
                    /\ kept[i].title = SubSeq(given[i].text, 1, Min(20, Len(given[i].text)))
    /\ (pIn.fn = "dispatch" /\ pIn.name = TOOL_LIST /\ pOut # <<>>)
       => LET given == Supplied(pIn.args.sections)
              kept == pOut[1].payload.sections
          IN /\ Len(kept) = Min(10, Len(given))
             /\ \A i \in DOMAIN kept :
                    LET rows == Supplied(given[i].rows) IN
                    /\ kept[i].title = given[i].title
                    /\ Len(kept[i].rows) = Min(10, Len(rows))
                    /\ \A j \in DOMAIN kept[i].rows : kept[i].rows[j].id = rows[j].id

C17_Witness ==
    /\ pIn.fn = "dispatch"
    /\ pIn.name = TOOL_LIST
    /\ pIn.args.sections # {}
    /\ Len(Supplied(pIn.args.sections)) = 11
    /\ \A i \in 1..11 : Len(Supplied(Supplied(pIn.args.sections)[i].rows)) = 11
    /\ pOut # <<>>
    /\ Len(pOut[1].payload.sections) = 10
    /\ Len(pOut[1].payload.sections[10].rows) = 10
    /\ pOut[1].payload.sections[10].rows[10].id = 1010

\* C18: when the first completion returned tool calls, the message list
\* holds, right after the messages that completion was given (the system
\* message and the history), the assistant message with those tool calls;
\* it is there in every state in which a tool has been dispatched;
\* everything after it is a tool result, and the list given to the
\* finalizing completion holds, after it, one result per tool call in the
\* order of the calls.
C18_AssistantMessageBeforeResults ==
    \A r \in Reqs :
        toolCalls[r] # <<>>
        => LET n1 == completions[r][1].nmsgs IN
           /\ Len(messages[r]) >= n1 + 1
           /\ SubSeq(messages[r], 1, n1) = BuildMessages(history[r])
           /\ \A m \in 1..n1 : messages[r][m].role \in {"system", "user", "assistant"}
           /\ messages[r][n1 + 1] = Msg("assistant", completions[r][1].content, 0, toolCalls[r])
           /\ \A m \in DOMAIN messages[r] : m > n1 + 1 => messages[r][m].role = "tool"
           /\ Len(posts[r]) + toolCallsExecuted[r] > 0 => messages[r][n1 + 1].role = "assistant"
           /\ Len(completions[r]) = 2
              => /\ completions[r][2].nmsgs = n1 + 1 + Len(toolCalls[r])
                 /\ Len(messages[r]) = n1 + 1 + Len(toolCalls[r])
                 /\ \A i \in DOMAIN toolCalls[r] :
                        /\ messages[r][n1 + 1 + i].role = "tool"
                        /\ messages[r][n1 + 1 + i].tool_call_id = toolCalls[r][i].id

C18_Witness ==
    \E r \in Reqs :
        /\ Len(completions[r]) = 2
        /\ Len(toolCalls[r]) = 2
        /\ Len(history[r]) = 3
        /\ completions[r][1].nmsgs = 4
        /\ completions[r][2].nmsgs = 7
        /\ messages[r][5].role = "assistant"
        /\ messages[r][5].tool_calls = toolCalls[r]
        /\ messages[r][6].role = "tool"
        /\ messages[r][7].tool_call_id = 2

\* the message list the first completion call of the request was given
Sent(r) == SubSeq(messages[r], 1, completions[r][1].nmsgs)

\* the new user message of the request, as an entry of the message list
OwnTurn(r) == Msg("user", req[r].body.newMessage, 0, <<>>)

\* positions of the store that held a row of the request's conversation
\* when its history fetch ran
RowsAtFetch(r) ==
    {k \in 1..rpcs[r][1].at : store[k].conversation_id = req[r].body.conversationId}

\* rows another writer put into the conversation between the request's own
\* insert and its history fetch
Overtaken(r) == {k \in RowsAtFetch(r) : k > inserts[r][1].at}

Last(S) == CHOOSE k \in S : \A j \in S : j <= k

\* C19 as stated: the list given to the first completion is the system
\* message, then the history, and its last entry is the request's own new
\* user message, whatever the history fetch returned and however the
\* requests interleave.
C19_OwnMessageLast ==
    \A r \in Reqs :
        completions[r] # <<>>
        => /\ Sent(r) = BuildMessages(history[r])
           /\ Len(Sent(r)) >= 2
           /\ Sent(r)[Len(Sent(r))] = OwnTurn(r)

\* C19, amended: the list given to the first completion is the system
\* message followed by the user and assistant turns of the fetched history,
\* in the order of the store.  The request's own message is not appended by
\* the handler: it is the last entry when the fetch returned rows and no
\* other turn of the same conversation was stored between the request's
\* insert and its fetch.  When the fetch returned no data the list is the
\* system message alone, and when a concurrent request stored a turn in
\* between, the last entry is that turn and the own message comes before it.
C19_MessageListFollowsFetchedHistory ==
    \A r \in Reqs :
        completions[r] # <<>>
        => /\ Sent(r) = BuildMessages(history[r])
           /\ Sent(r)[1] = Msg("system", SYSTEM_PROMPT, 0, <<>>)
           /\ \A m \in 2..Len(Sent(r)) : Sent(r)[m].role \in {"user", "assistant"}
           /\ rpcs[r][1].out = "null" => Sent(r) = <<Msg("system", SYSTEM_PROMPT, 0, <<>>)>>
           /\ rpcs[r][1].out = "data"
              => LET own == inserts[r][1].at
                     k == Last(RowsAtFetch(r))
                 IN /\ own \in RowsAtFetch(r)
                    /\ store[own] = Row(req[r].body.conversationId, "user",
                                        req[r].body.newMessage)
                    /\ Len(Sent(r)) >= 2
                    /\ Sent(r)[Len(Sent(r))] = Msg(store[k].role, store[k].content, 0, <<>>)
                    /\ Overtaken(r) = {} => Sent(r)[Len(Sent(r))] = OwnTurn(r)
                    /\ Overtaken(r) # {}
                       => /\ Len(Sent(r)) >= 2 + Cardinality(Overtaken(r))
                          /\ Sent(r)[Len(Sent(r)) - Cardinality(Overtaken(r))] = OwnTurn(r)

C19_Witness ==
    /\ req["r1"].body.conversationId = req["r2"].body.conversationId
    /\ completions["r1"] # <<>>
    /\ completions["r2"] # <<>>
    /\ rpcs["r1"][1].out = "data"
    /\ rpcs["r2"][1].out = "data"
    /\ Overtaken("r1") = {}
    /\ Overtaken("r2") = {}
    /\ Len(Sent("r1")) = 4
    /\ Sent("r1")[4] = OwnTurn("r1")
    /\ Len(Sent("r2")) = 5
    /\ Sent("r2")[4] = OwnTurn("r1")
    /\ Sent("r2")[5] = OwnTurn("r2")

InsertsOf(r, role) == {k \in DOMAIN inserts[r] : inserts[r][k].role = role}

\* C20: a request attempts at most one insert of a user turn and at most
\* one of an assistant turn, the user turn first, each with its own
\* conversation id, and a successful insert stored exactly that row; a
\* success response comes after exactly one assistant insert attempt, whose
\* content is the `response` text.  This holds while another request runs
\* at the same time on the same store.
C20_OneInsertPerTurn ==
    \A r \in Reqs :
        /\ Cardinality(InsertsOf(r, "user")) <= 1
        /\ Cardinality(InsertsOf(r, "assistant")) <= 1
        /\ InsertsOf(r, "user") \cup InsertsOf(r, "assistant") = DOMAIN inserts[r]
        /\ inserts[r] # <<>> => inserts[r][1].role = "user"
        /\ \A k \in DOMAIN inserts[r] :
              /\ inserts[r][k].conversation_id = req[r].body.conversationId
              /\ inserts[r][k].ok
                 => /\ inserts[r][k].at <= Len(store)
                    /\ store[inserts[r][k].at]
                         = Row(req[r].body.conversationId, inserts[r][k].role,
                               inserts[r][k].content)
        /\ inserts[r] # <<>> => inserts[r][1].content = req[r].body.newMessage
        /\ response[r].success
           => /\ Cardinality(InsertsOf(r, "assistant")) = 1
              /\ \A k \in InsertsOf(r, "assistant") : inserts[r][k].content = response[r].text
        /\ InsertsOf(r, "assistant") # {} => response[r].success

C20_Witness ==
    /\ req["r1"].body.conversationId = req["r2"].body.conversationId
    /\ response["r1"].success
    /\ response["r2"].success
    /\ Len(inserts["r1"]) = 2
    /\ Len(inserts["r2"]) = 2
    /\ inserts["r1"][1].at < inserts["r2"][1].at
    /\ inserts["r2"][1].at < inserts["r1"][2].at
    /\ inserts["r1"][2].ok
    /\ inserts["r1"][2].at < inserts["r2"][2].at
    /\ inserts["r2"][2].ok
    /\ inserts["r1"][2].content = response["r1"].text
    /\ inserts["r2"][2].content = response["r2"].text

\* the outbound POSTs of the request made for the tool call with this id
PostsOf(r, id) == {k \in DOMAIN posts[r] : posts[r][k].call = id}

\* C21: every outbound POST of a request belongs to one of the tool calls of
\* its first completion, a tool call has at most one POST, whatever the
\* POST's outcome, and a call with an unrecognized name has none; so the
\* POSTs of a request are never more than its tool calls, and none when the
\* first completion returned no tool call.
C21_AtMostOnePostPerCall ==
    \A r \in Reqs :
        /\ \A k \in DOMAIN posts[r] : posts[r][k].call \in DOMAIN toolCalls[r]
        /\ \A i \in DOMAIN toolCalls[r] :
              /\ Cardinality(PostsOf(r, toolCalls[r][i].id)) <= 1
              /\ toolCalls[r][i].name \notin {TOOL_BUSCAR} \cup MessagingTools
                 => PostsOf(r, toolCalls[r][i].id) = {}
        /\ Len(posts[r]) <= Len(toolCalls[r])
        /\ toolCalls[r] = <<>> => posts[r] = <<>>
        /\ inFlight[r] <= 1

C21_Witness ==
    \E r \in Reqs :
        /\ pc[r] = "done"
        /\ Len(toolCalls[r]) = 2
        /\ toolCalls[r][1].name = TOOL_BUTTONS
        /\ toolCalls[r][2].name = TOOL_UNKNOWN
        /\ toolCalls[r][2].argsOk
        /\ Len(posts[r]) = 1
        /\ posts[r][1].call = 1
        /\ posts[r][1].out = "http500"
        /\ response[r].toolCallsExecuted = 2

\* the finalizing completion call of the request was made and failed
FinalCompletionFailed(r) == Len(completions[r]) = 2 /\ ~completions[r][2].ok

\* C22: when the finalizing completion fails after the k >= 1 tool calls of
\* the first completion were handled, the handler goes on with the fallback
\* text and the counter at k: the assistant insert and the 200 success
\* envelope carry the fallback text, tool_calls_executed is k, and the POSTs
\* made for the tool calls stay made, one for every call of a known tool.
C22_FallbackKeepsToolEffects ==
    \A r \in Reqs :
        FinalCompletionFailed(r)
        => /\ Len(toolCalls[r]) >= 1
           /\ toolCallsExecuted[r] = Len(toolCalls[r])
           /\ agentResponse[r] = FALLBACK_ERROR
           /\ pc[r] \in {"insertAssistant", "done"}
           /\ \A i \in DOMAIN toolCalls[r] :
                  /\ HasToolEntry(r, toolCalls[r][i].id)
                  /\ toolCalls[r][i].name \in {TOOL_BUSCAR} \cup MessagingTools
                     => \E k \in DOMAIN posts[r] :
                            /\ posts[r][k].call = toolCalls[r][i].id
                            /\ posts[r][k].out # "pending"
                            /\ posts[r][k].body # "pending"
           /\ pc[r] = "done"
              => /\ response[r].status = 200
                 /\ response[r].success
                 /\ response[r].text = FALLBACK_ERROR
                 /\ response[r].toolCallsExecuted = Len(toolCalls[r])
                 /\ \E k \in DOMAIN inserts[r] :
                        /\ inserts[r][k].role = "assistant"
                        /\ inserts[r][k].content = FALLBACK_ERROR

C22_Witness ==
    \E r \in Reqs :
        /\ pc[r] = "done"
        /\ FinalCompletionFailed(r)
        /\ Len(toolCalls[r]) = 2
        /\ toolCalls[r][1].name = TOOL_TEXT
        /\ Len(posts[r]) = 2
        /\ posts[r][1].url = "/tool/send-whatsapp"
        /\ posts[r][1].out = "ok"
        /\ response[r].success
        /\ response[r].text = FALLBACK_ERROR
        /\ response[r].toolCallsExecuted = 2

====
